---- MODULE Spec2Model ----
(***************************************************************************)
(* State-machine model of train_pl.py (Latte, PyTorch Lightning trainer):  *)
(* LatteTrainingModule.__init__, _load_pretrained_parameters,              *)
(* training_step, on_train_batch_end, configure_optimizers, and the        *)
(* Trainer.fit loop that main() starts.                                    *)
(*                                                                         *)
(* Numbers.  Parameter values are integers in units of 1/Quantum, so that  *)
(* every exponential-moving-average update of a run is exact.  A decay is  *)
(* a numerator over DecayDen.  Gradients are integer vectors whose L2 norm *)
(* is an integer (multiples of the 3-4-5 triple).  The learning rate is in *)
(* units of 1e-4.                                                          *)
(***************************************************************************)
EXTENDS Integers, Sequences, FiniteSets, TLC

(* ------------------------------ bounds -------------------------------- *)

\* args.max_train_steps of the modelled runs
MaxTrainSteps == 3

\* batch gradients are m * (3, 4) for m in 0..MaxGradMult
MaxGradMult == 2

\* number of batches the loader yields per epoch
BatchesPerEpoch == 2

(* --------------------------- program values ---------------------------- *)

\* torch.optim.AdamW(..., lr=1e-4, ...), in units of 1e-4
BaseLr == 1

\* denominator of every decay value of the model
DecayDen == 4

\* the decay update_ema uses when the caller passes none (utils.update_ema,
\* not part of this file); 3/4 stands for that fixed value in (0, 1)
DefaultDecay == 3

\* line 52: update_ema(self.ema, self.model, decay=0)
BootstrapDecayAsDefault == DefaultDecay
BootstrapDecay == 0

Quantum == DecayDen ^ MaxTrainSteps

\* parameter names of the network built by get_models(args)
Keys == {"k1", "k2"}

\* the shape of every parameter of the network (an opaque tag)
ModelShape == 1

Abs(x) == IF x < 0 THEN -x ELSE x

Sgn(x) == IF x < 0 THEN -1 ELSE IF x > 0 THEN 1 ELSE 0

Min(a, b) == IF a < b THEN a ELSE b

RECURSIVE SumOver(_, _)
SumOver(f, S) ==
    IF S = {} THEN 0
    ELSE LET k == CHOOSE x \in S : TRUE
         IN  f[k] + SumOver(f, S \ {k})

\* integer square root (exact on the gradients of the model)
ISqrt(n) == CHOOSE r \in 0..n : r * r <= n /\ (r + 1) * (r + 1) > n

ZeroVec == [k \in Keys |-> 0]

(* ------------------------ external collaborators ----------------------- *)

\* get_models(args): the freshly initialised network
InitParams == [k \in Keys |-> IF k = "k1" THEN Quantum ELSE 2 * Quantum]

\* a batch, reduced to what the step reads from it: the scalar loss the
\* diffusion process returns and the gradient autodiff derives from it
GradOfBatch(m) == [k \in Keys |-> IF k = "k1" THEN 3 * m ELSE 4 * m]

\* a batch whose loss is NaN or Inf: so is every gradient derived from it
\* (the numbers stored with it are placeholders)
NonFiniteBatch == [loss |-> 0, finite |-> FALSE, g |-> [k \in Keys |-> 0]]

Batches ==
    { [loss |-> m, finite |-> TRUE, g |-> GradOfBatch(m)] : m \in 0..MaxGradMult }
        \cup {NonFiniteBatch}

\* L2 norm of the concatenation of all gradients; absent gradients are
\* excluded, so no gradient at all gives 0
GradNorm(has, g) ==
    IF has THEN ISqrt(SumOver([k \in Keys |-> g[k] * g[k]], Keys)) ELSE 0

\* utils.clip_grad_norm_(parameters, max_norm, clip_grad): the pair of the
\* returned norm and the gradients it leaves behind
clip_grad_norm_(has, g, max_norm, clip_grad) ==
    LET n == GradNorm(has, g)
    IN  [norm |-> n,
         grad |-> IF clip_grad /\ has /\ n > max_norm
                  THEN [k \in Keys |-> Sgn(g[k]) * ((Abs(g[k]) * max_norm) \div n)]
                  ELSE g]

\* utils.update_ema(ema_model, model, decay): the new shadow parameters
update_ema(shadow, live, decay) ==
    [k \in Keys |-> (shadow[k] * decay + live[k] * (DecayDen - decay)) \div DecayDen]

\* torch AdamW (weight_decay=0), abstracted to its direction: the first
\* moment accumulates the gradient and each parameter moves by lr against
\* the sign of its first moment
AdamWState(opt, g) ==
    [step |-> opt.step + 1, exp_avg |-> [k \in Keys |-> opt.exp_avg[k] + g[k]]]

AdamWStep(params, opt, g, rate) ==
    LET o == AdamWState(opt, g)
    IN  [k \in Keys |-> params[k] - rate * Quantum * Sgn(o.exp_avg[k])]

FreshOpt == [step |-> 0, exp_avg |-> ZeroVec]

\* diffusers get_scheduler(name="constant", ...): LambdaLR with factor 1 for
\* every scheduler count; num_warmup_steps is not used by this schedule
ConstantSchedule(count, warmup) == BaseLr

(* ------------------------------- inputs -------------------------------- *)

NoParams == [k \in {} |-> [val |-> 0, shape |-> ModelShape]]

\* a parameter dict of a checkpoint file: every name in S with value v * Quantum
ParamDict(S, v, shape) == [k \in S |-> [val |-> v * Quantum, shape |-> shape]]

\* the object torch.load(args.pretrained) returns (given: args.pretrained is
\* a path).  A checkpoint written by train.py maps "ema" and "model" to
\* parameter dicts; a bare export is itself the parameter dict
PretrainedChoices ==
    { [given |-> FALSE, file |-> NoParams],
      [given |-> TRUE,
       file  |-> [x \in {"ema", "model"} |->
                    IF x = "ema" THEN ParamDict({"k1"}, 5, ModelShape)
                    ELSE ParamDict({"k1", "k2"}, 4, ModelShape)]],
      [given |-> TRUE, file |-> ParamDict({"k1", "k3"}, 6, ModelShape)],
      [given |-> TRUE, file |-> ParamDict({"k1", "k2", "k3"}, 7, ModelShape)],
      [given |-> TRUE, file |-> ParamDict({"k3"}, 7, ModelShape)],
      [given |-> TRUE, file |-> ParamDict({"k2"}, 5, ModelShape + 1)],
      [given |-> TRUE, file |-> NoParams] }

\* a Lightning checkpoint written after n optimizer steps of this module
Ckpt(n) ==
    [global_step   |-> n,
     model         |-> [k \in Keys |-> IF k = "k1" THEN 8 * Quantum ELSE 3 * Quantum],
     ema           |-> [k \in Keys |-> IF k = "k1" THEN 9 * Quantum ELSE 4 * Quantum],
     opt           |-> [step |-> n, exp_avg |-> GradOfBatch(n)],
     sched         |-> n \div BatchesPerEpoch,
     current_epoch |-> n \div BatchesPerEpoch,
     batch_idx     |-> n % BatchesPerEpoch]

\* args.resume_from_checkpoint: None, an empty string, or a checkpoint path
ResumeChoices ==
    { [kind |-> "None", ckpt |-> Ckpt(0)],
      [kind |-> "empty", ckpt |-> Ckpt(0)] }
    \cup { [kind |-> "path", ckpt |-> Ckpt(n)] : n \in {1, MaxTrainSteps} }

\* the configuration main() receives
ArgsChoices ==
    [ pretrained             : PretrainedChoices,
      resume_from_checkpoint : ResumeChoices,
      start_clip_iter        : {0, 2},
      clip_max_norm          : {5},
      lr_warmup_steps        : {0, 2},
      gradient_accumulation_steps : {1},
      max_train_steps        : {MaxTrainSteps},
      log_every              : {2},
      ema_decay              : {DefaultDecay, 2} ]

(* -------------------------------- state -------------------------------- *)

VARIABLES
    args,           \* self.args
    pc,             \* where main() and the Trainer are
    model,          \* self.model: the live parameters
    ema,            \* self.ema: the shadow parameters
    hasGrad,        \* whether the parameters hold a .grad
    grad,           \* the .grad of the parameters
    gradOf,         \* global_step of the loss that grad was derived from
    opt,            \* self.opt state
    sched,          \* self.lr_scheduler count (last_epoch)
    lr,             \* learning rate the optimizer applies
    global_step,    \* trainer.global_step
    current_epoch,  \* trainer.current_epoch
    batch_idx,      \* batches done in the current epoch
    batch,          \* the batch of the step in progress
    metrics,        \* what self.log received in the step in progress
    logLines,       \* steps for which self.logging.info wrote the step line
    ignored,        \* names reported by "Ignoring: ..."
    unfilled,       \* names of the network reported as not filled by the load
    governed,       \* history: the last clip_grad_norm_ call
    applied,        \* history: the gradients of the last optimizer update
    ctorTrace,      \* history: loads and decay-0 updates of __init__
    emaUpdates,     \* history: per-step update_ema calls
    optSteps,       \* history: optimizer updates
    restoredStep,   \* history: global_step restored by fit (0 if none)
    nan             \* which values are NaN (their stored numbers are placeholders)

vars == << args, pc, model, ema, hasGrad, grad, gradOf, opt, sched, lr,
           global_step, current_epoch, batch_idx, batch, metrics, logLines,
           ignored, unfilled, governed, applied, ctorTrace, emaUpdates,
           optSteps, restoredStep, nan >>

NoBatch == [loss |-> 0, finite |-> TRUE, g |-> ZeroVec]

NoMetrics ==
    [logged |-> FALSE, train_loss |-> 0, finite |-> TRUE, gradient_norm |-> 0,
     step |-> 0, optSteps |-> 0, emaUpdates |-> 0]

NoGoverned ==
    [called |-> FALSE, step |-> 0, enforce |-> FALSE, hadGrad |-> FALSE,
     gradOf |-> 0, before |-> ZeroVec, after |-> ZeroVec, norm |-> 0]

NoApplied ==
    [done |-> FALSE, step |-> 0, gradOf |-> 0, g |-> ZeroVec, lr |-> 0,
     finite |-> TRUE]

\* loss: a non-finite loss was computed, first at global_step step;
\* params, shadow: the live, the shadow parameters are NaN
NoNan == [loss |-> FALSE, step |-> 0, params |-> FALSE, shadow |-> FALSE]

\* __init__ lines 31-36: the network is built and deep-copied into the shadow
Init ==
    /\ args \in ArgsChoices
    /\ pc = "ctor"
    /\ model = InitParams
    /\ ema = InitParams
    /\ hasGrad = FALSE
    /\ grad = ZeroVec
    /\ gradOf = 0
    /\ opt = FreshOpt
    /\ sched = 0
    /\ lr = BaseLr
    /\ global_step = 0
    /\ current_epoch = 0
    /\ batch_idx = 0
    /\ batch = NoBatch
    /\ metrics = NoMetrics
    /\ logLines = {}
    /\ ignored = {}
    /\ unfilled = {}
    /\ governed = NoGoverned
    /\ applied = NoApplied
    /\ ctorTrace = << >>
    /\ emaUpdates = 0
    /\ optSteps = 0
    /\ restoredStep = 0
    /\ nan = NoNan

(* ----------------------------- construction ---------------------------- *)

\* lines 58-60: the parameter dict the load works on
UnwrapModelEntry(file) == IF "ema" \in DOMAIN file THEN file["model"] ELSE file
Unwrap(file) == IF "ema" \in DOMAIN file THEN file["ema"] ELSE file

\* the load without the filter of lines 65-67: every name of the dict is kept
load_pretrained_parameters_unfiltered(rec, live) ==
    LET checkpoint == Unwrap(rec.file)
        divides    == DOMAIN checkpoint # {}
        shapesFit  == \A k \in DOMAIN checkpoint \cap Keys :
                          checkpoint[k].shape = ModelShape
    IN  [ok       |-> divides /\ shapesFit,
         ignored  |-> {},
         unfilled |-> {},
         model    |-> IF divides /\ shapesFit
                      THEN [k \in Keys \cup DOMAIN checkpoint |->
                               IF k \in DOMAIN checkpoint
                               THEN checkpoint[k].val ELSE live[k]]
                      ELSE live]

\* _load_pretrained_parameters, lines 57-75, as a function of the file and
\* the live parameters: whether it returns (line 70 divides by the number of
\* names in the dict, load_state_dict of line 74 rejects a shape that
\* differs), the live parameters it leaves, the names it reports as ignored
\* (line 69) and the names of the network it reports as not filled (no line
\* reports any)
load_pretrained_parameters(rec, live) ==
    LET checkpoint      == Unwrap(rec.file)
        pretrained_dict == DOMAIN checkpoint \cap Keys
        reported        == DOMAIN checkpoint \ Keys
        divides         == DOMAIN checkpoint # {}
        shapesFit       == \A k \in pretrained_dict : checkpoint[k].shape = ModelShape
    IN  [ok       |-> divides /\ shapesFit,
         ignored  |-> reported,
         unfilled |-> {},
         model    |-> IF divides /\ shapesFit
                      THEN [k \in Keys |-> IF k \in pretrained_dict
                                           THEN checkpoint[k].val ELSE live[k]]
                      ELSE live]

\* line 39 without its second condition
LoadsPretrainedWheneverGiven(a) == a.pretrained.given
\* line 39
LoadsPretrained(a) == a.pretrained.given /\ a.resume_from_checkpoint.kind # "None"

\* __init__ lines 38-41
ctor_load ==
    /\ pc = "ctor"
    /\ IF LoadsPretrained(args)
       THEN LET r == load_pretrained_parameters(args.pretrained, model)
            IN  /\ model' = r.model
                /\ ignored' = r.ignored
                /\ unfilled' = r.unfilled
                /\ pc' = IF r.ok THEN "ctor_sync" ELSE "Failed"
                /\ ctorTrace' = IF r.ok THEN Append(ctorTrace, "load") ELSE ctorTrace
       ELSE /\ pc' = "ctor_sync"
            /\ UNCHANGED << model, ignored, unfilled, ctorTrace >>
    /\ UNCHANGED << args, nan, ema, hasGrad, grad, gradOf, opt, sched, lr, global_step,
                    current_epoch, batch_idx, batch, metrics, logLines, governed,
                    applied, emaUpdates, optSteps, restoredStep >>

\* __init__ lines 42-54: the optimizer is created and the shadow is synced
ctor_finish ==
    /\ pc = "ctor_sync"
    /\ opt' = FreshOpt
    /\ lr' = BaseLr
    /\ ema' = update_ema(ema, model, BootstrapDecay)
    /\ ctorTrace' = Append(ctorTrace, "sync")
    /\ pc' = "constructed"
    /\ UNCHANGED << args, unfilled, nan, model, hasGrad, grad, gradOf, sched, global_step,
                    current_epoch, batch_idx, batch, metrics, logLines, ignored,
                    governed, applied, emaUpdates, optSteps, restoredStep >>

(* --------------------------------- fit --------------------------------- *)

\* lines 112-119, called by trainer.fit before any checkpoint is restored
configure_optimizers ==
    /\ pc = "constructed"
    /\ sched' = 0
    /\ lr' = ConstantSchedule(0, args.lr_warmup_steps * args.gradient_accumulation_steps)
    /\ pc' = "configured"
    /\ UNCHANGED << args, unfilled, nan, model, ema, hasGrad, grad, gradOf, opt, global_step,
                    current_epoch, batch_idx, batch, metrics, logLines, ignored,
                    governed, applied, ctorTrace, emaUpdates, optSteps, restoredStep >>

\* line 197: ckpt_path is the checkpoint when resume_from_checkpoint is truthy
CkptPath(a) == a.resume_from_checkpoint.kind = "path"

\* fit_restore with the shadow left out of the restored state
fit_restore_without_ema ==
    /\ pc = "configured"
    /\ IF CkptPath(args)
       THEN LET c == args.resume_from_checkpoint.ckpt
            IN  /\ model' = c.model
                /\ opt' = c.opt
                /\ sched' = c.sched
                /\ lr' = ConstantSchedule(c.sched,
                            args.lr_warmup_steps * args.gradient_accumulation_steps)
                /\ global_step' = c.global_step
                /\ current_epoch' = c.current_epoch
                /\ batch_idx' = c.batch_idx
                /\ restoredStep' = c.global_step
       ELSE UNCHANGED << model, opt, sched, lr, global_step, current_epoch,
                         batch_idx, restoredStep >>
    /\ pc' = "Idle"
    /\ UNCHANGED << args, unfilled, nan, ema, hasGrad, grad, gradOf, batch, metrics, logLines,
                    ignored, governed, applied, ctorTrace, emaUpdates, optSteps >>

\* trainer.fit(..., ckpt_path=...): the module's state_dict (model and ema),
\* the optimizer, the scheduler and the loop progress are restored
fit_restore ==
    /\ pc = "configured"
    /\ IF CkptPath(args)
       THEN LET c == args.resume_from_checkpoint.ckpt
            IN  /\ model' = c.model
                /\ ema' = c.ema
                /\ opt' = c.opt
                /\ sched' = c.sched
                /\ lr' = ConstantSchedule(c.sched,
                            args.lr_warmup_steps * args.gradient_accumulation_steps)
                /\ global_step' = c.global_step
                /\ current_epoch' = c.current_epoch
                /\ batch_idx' = c.batch_idx
                /\ restoredStep' = c.global_step
       ELSE UNCHANGED << model, ema, opt, sched, lr, global_step, current_epoch,
                         batch_idx, restoredStep >>
    /\ pc' = "Idle"
    /\ UNCHANGED << args, unfilled, nan, hasGrad, grad, gradOf, batch, metrics, logLines, ignored,
                    governed, applied, ctorTrace, emaUpdates, optSteps >>

\* line 95: clip_grad is False below start_clip_iter and True from it on
ClipGradOffByOne(step, start) == ~(step <= start)
ClipGrad(step, start) == ~(step < start)

\* line 191: Trainer(max_steps=args.max_train_steps)
MaxStepsOneMore(a) == a.max_train_steps + 1
MaxSteps(a) == a.max_train_steps

\* line 110 passes no decay: update_ema falls back on its default
StepDecayAsBootstrap == BootstrapDecay
StepDecay == DefaultDecay

\* lines 79-107, one call on the batch the loop pulled
training_step ==
    /\ pc = "Idle"
    /\ global_step < MaxSteps(args)
    /\ batch_idx < BatchesPerEpoch
    /\ \E pulled \in Batches :
          LET \* line 92: the loss of NaN parameters is NaN on every batch
              b == IF nan.params THEN NonFiniteBatch ELSE pulled
              clip_grad == ClipGrad(global_step, args.start_clip_iter)
              r == clip_grad_norm_(hasGrad, grad, args.clip_max_norm, clip_grad)
          IN  /\ batch' = b
              /\ grad' = r.grad
              /\ governed' = [called |-> TRUE, step |-> global_step,
                              enforce |-> clip_grad, hadGrad |-> hasGrad,
                              gradOf |-> gradOf, before |-> grad, after |-> r.grad,
                              norm |-> r.norm]
              /\ metrics' = [logged |-> TRUE, train_loss |-> b.loss,
                             finite |-> b.finite, gradient_norm |-> r.norm,
                             step |-> global_step, optSteps |-> optSteps,
                             emaUpdates |-> emaUpdates]
              /\ nan' = IF b.finite \/ nan.loss THEN nan
                        ELSE [nan EXCEPT !.loss = TRUE, !.step = global_step]
    /\ logLines' = IF (global_step + 1) % args.log_every = 0
                   THEN logLines \cup {global_step + 1} ELSE logLines
    /\ pc' = "Stepped"
    /\ UNCHANGED << args, unfilled, model, ema, hasGrad, gradOf, opt, sched, lr, global_step,
                    current_epoch, batch_idx, ignored, applied, ctorTrace,
                    emaUpdates, optSteps, restoredStep >>

\* the Trainer, on the loss training_step returned: zero_grad, then backward
backward ==
    /\ pc = "Stepped"
    /\ hasGrad' = TRUE
    /\ grad' = batch.g
    /\ gradOf' = global_step
    /\ pc' = "Backwarded"
    /\ UNCHANGED << args, unfilled, nan, model, ema, opt, sched, lr, global_step, current_epoch,
                    batch_idx, batch, metrics, logLines, ignored, governed, applied,
                    ctorTrace, emaUpdates, optSteps, restoredStep >>

\* the Trainer: self.opt.step() on the gradients present, then global_step += 1
optimizer_step ==
    /\ pc = "Backwarded"
    /\ model' = AdamWStep(model, opt, grad, lr)
    /\ opt' = AdamWState(opt, grad)
    /\ applied' = [done |-> TRUE, step |-> global_step, gradOf |-> gradOf,
                   g |-> grad, lr |-> lr, finite |-> batch.finite]
    /\ nan' = [nan EXCEPT !.params = nan.params \/ ~batch.finite]
    /\ global_step' = global_step + 1
    /\ optSteps' = optSteps + 1
    /\ pc' = "Optimized"
    /\ UNCHANGED << args, unfilled, ema, hasGrad, grad, gradOf, sched, lr, current_epoch,
                    batch_idx, batch, metrics, logLines, ignored, governed,
                    ctorTrace, emaUpdates, restoredStep >>

\* on_train_batch_end with the shadow updated twice per batch
on_train_batch_end_twice ==
    /\ pc = "Optimized"
    /\ ema' = update_ema(update_ema(ema, model, StepDecay), model, StepDecay)
    /\ emaUpdates' = emaUpdates + 2
    /\ nan' = [nan EXCEPT !.shadow = nan.shadow \/ nan.params]
    /\ batch_idx' = batch_idx + 1
    /\ pc' = "Idle"
    /\ UNCHANGED << args, unfilled, model, hasGrad, grad, gradOf, opt, sched, lr, global_step,
                    current_epoch, batch, metrics, logLines, ignored, governed,
                    applied, ctorTrace, optSteps, restoredStep >>

\* on_train_batch_end with the arguments of update_ema exchanged
on_train_batch_end_swapped ==
    /\ pc = "Optimized"
    /\ model' = update_ema(model, ema, StepDecay)
    /\ emaUpdates' = emaUpdates + 1
    /\ batch_idx' = batch_idx + 1
    /\ pc' = "Idle"
    /\ UNCHANGED << args, unfilled, nan, ema, hasGrad, grad, gradOf, opt, sched, lr,
                    global_step, current_epoch, batch, metrics, logLines, ignored,
                    governed, applied, ctorTrace, optSteps, restoredStep >>

\* lines 109-110, called by the Trainer after the optimizer update
on_train_batch_end ==
    /\ pc = "Optimized"
    /\ ema' = update_ema(ema, model, StepDecay)
    /\ emaUpdates' = emaUpdates + 1
    /\ nan' = [nan EXCEPT !.shadow = nan.shadow \/ nan.params]
    /\ batch_idx' = batch_idx + 1
    /\ pc' = "Idle"
    /\ UNCHANGED << args, unfilled, model, hasGrad, grad, gradOf, opt, sched, lr, global_step,
                    current_epoch, batch, metrics, logLines, ignored, governed,
                    applied, ctorTrace, optSteps, restoredStep >>

\* the Trainer at the end of an epoch: the scheduler returned by
\* configure_optimizers is stepped, the epoch counter advances
epoch_end ==
    /\ pc = "Idle"
    /\ batch_idx = BatchesPerEpoch
    /\ sched' = sched + 1
    /\ lr' = ConstantSchedule(sched + 1,
                args.lr_warmup_steps * args.gradient_accumulation_steps)
    /\ current_epoch' = current_epoch + 1
    /\ batch_idx' = 0
    /\ UNCHANGED << args, unfilled, nan, pc, model, ema, hasGrad, grad, gradOf, opt, global_step,
                    batch, metrics, logLines, ignored, governed, applied, ctorTrace,
                    emaUpdates, optSteps, restoredStep >>

\* Trainer(max_steps=args.max_train_steps): fit returns, lines 199-202 run
fit_done ==
    /\ pc = "Idle"
    /\ global_step >= MaxSteps(args)
    /\ batch_idx < BatchesPerEpoch
    /\ pc' = "Terminal"
    /\ UNCHANGED << args, unfilled, nan, model, ema, hasGrad, grad, gradOf, opt, sched, lr,
                    global_step, current_epoch, batch_idx, batch, metrics, logLines,
                    ignored, governed, applied, ctorTrace, emaUpdates, optSteps,
                    restoredStep >>

Next ==
    \/ ctor_load
    \/ ctor_finish
    \/ configure_optimizers
    \/ fit_restore
    \/ training_step
    \/ backward
    \/ optimizer_step
    \/ on_train_batch_end
    \/ epoch_end
    \/ fit_done

Spec == Init /\ [][Next]_vars

\* the process runs every enabled step of main(): nothing suspends it
FairSpec == Spec /\ WF_vars(Next)

TypeOK ==
    /\ pc \in {"ctor", "ctor_sync", "constructed", "configured", "Idle", "Stepped",
               "Backwarded", "Optimized", "Terminal", "Failed"}
    /\ global_step \in 0..MaxTrainSteps
    /\ DOMAIN model = Keys
    /\ DOMAIN ema = Keys
    /\ nan.step \in 0..MaxTrainSteps
    /\ nan.shadow => nan.params
    /\ nan.params => nan.loss

(* ------------------------------- claims -------------------------------- *)

InLoop == pc \in {"Idle", "Stepped", "Backwarded", "Optimized"}

InStep == pc \in {"Stepped", "Backwarded", "Optimized"}

\* C1: the gradients the Gradient Norm Governor observes in a step are the
\* ones derived from that step's loss (it runs after that step's backward
\* pass), and the gradients that step's optimizer update applies are the
\* ones the Governor left behind.
GovernorBetweenBackwardAndUpdate ==
    /\ (InStep /\ governed.called) =>
           (governed.hadGrad /\ governed.gradOf = governed.step)
    /\ (pc = "Optimized" /\ applied.done) =>
           (governed.step = applied.step /\ applied.g = governed.after)

\* C2: every optimizer update of a step with global_step >= start_clip_iter
\* applies gradients whose global L2 norm is at most clip_max_norm.
AppliedNormWithinClip ==
    (applied.done /\ applied.step >= args.start_clip_iter) =>
        GradNorm(TRUE, applied.g) <= args.clip_max_norm

\* C3: one per-step shadow update per optimizer update, after it and never
\* before it: at every step boundary the per-step updates of the run (those
\* before the restored step included) number global_step, none happens
\* between a step's start and its optimizer update, and the shadow changes
\* in the loop only by the update that follows an optimizer update.
EmaOncePerOptimizerStep ==
    /\ [](/\ (pc \in {"Idle", "Terminal"}) => restoredStep + emaUpdates = global_step
          /\ (pc \in {"Stepped", "Backwarded"}) =>
                 (restoredStep + emaUpdates = global_step /\ emaUpdates = optSteps)
          /\ (pc = "Optimized") => emaUpdates + 1 = optSteps)
    /\ [][(InLoop /\ (ema' # ema \/ emaUpdates' # emaUpdates)) =>
              (pc = "Optimized" /\ emaUpdates' = emaUpdates + 1)]_vars

EmaOncePerOptimizerStepSeen ==
    /\ pc = "Idle"
    /\ restoredStep = 0
    /\ emaUpdates = 2
    /\ global_step = 2

\* C4: right after construction the shadow equals the live parameters on
\* every key, with or without a partial pretrained load; construction does
\* exactly one decay-0 update, after the load when there is one.
ShadowSyncedAfterConstruction ==
    (pc = "constructed") =>
        /\ \A k \in Keys : ema[k] = model[k]
        /\ ctorTrace = IF LoadsPretrained(args) THEN << "load", "sync" >>
                       ELSE << "sync" >>

ShadowSyncedAfterLoad ==
    /\ pc = "constructed"
    /\ ctorTrace = << "load", "sync" >>
    /\ model # InitParams
    /\ \E k \in Keys : model[k] = InitParams[k]

\* C5: the clipping decision of every Governor call is
\* enforce = (global_step >= start_clip_iter) at the time of the call; the
\* norm is computed and logged either way, and without enforce the
\* gradients are left as they were.
EnforceFromStartClipStep ==
    governed.called =>
        /\ governed.enforce = (governed.step >= args.start_clip_iter)
        /\ governed.norm = GradNorm(governed.hadGrad, governed.before)
        /\ metrics.logged /\ metrics.gradient_norm = governed.norm
        /\ (~governed.enforce) => governed.after = governed.before

EnforceAtStartClipStep ==
    /\ governed.called
    /\ args.start_clip_iter > 0
    /\ governed.step = args.start_clip_iter
    /\ governed.enforce
    /\ governed.norm > args.clip_max_norm

\* C6 as stated: every per-step shadow update uses the configured
\* ema_decay as d in shadow' = shadow * d + live * (1 - d).
EmaUsesConfiguredDecay ==
    [][(emaUpdates' = emaUpdates + 1) =>
          \A k \in Keys :
              DecayDen * ema'[k] =
                  args.ema_decay * ema[k] + (DecayDen - args.ema_decay) * model[k]]_vars

\* C6, amended: every per-step shadow update computes, on every key,
\* shadow' = shadow * d + live * (1 - d) with d the default decay of
\* update_ema (no configured value is read), live being the parameters after
\* that step's optimizer update; d is not 0, which only the decay-0 call of
\* construction uses.
EmaUsesDefaultDecay ==
    [][(emaUpdates' = emaUpdates + 1) =>
          /\ pc = "Optimized" /\ applied.step + 1 = global_step
          /\ \A k \in Keys :
                 DecayDen * ema'[k] =
                     DefaultDecay * ema[k] + (DecayDen - DefaultDecay) * model[k]
          /\ DefaultDecay # BootstrapDecay]_vars

EmaUsedDefaultDecay ==
    /\ pc = "Idle"
    /\ emaUpdates > 0
    /\ args.ema_decay # DefaultDecay
    /\ ema # model

\* a run that starts at step 0: no checkpoint is restored
FreshRun == ~CkptPath(args)

\* the live parameters __init__ leaves
ConstructedParams ==
    IF LoadsPretrained(args)
    THEN load_pretrained_parameters(args.pretrained, InitParams).model
    ELSE InitParams

AfterFirstStep == FreshRun /\ pc = "Idle" /\ optSteps = 1 /\ emaUpdates = 1

\* C7 as stated: after the first full step of a fresh module global_step
\* is 1 and the shadow equals the live parameters exactly.
FirstStepShadowEqualsLive ==
    AfterFirstStep => (global_step = 1 /\ ema = model)

\* C7, amended: after the first full step of a fresh module global_step is
\* 1 and the shadow is d * live0 + (1 - d) * live1, live0 being the
\* parameters at construction, live1 those after the optimizer update and d
\* the default decay; it equals the live parameters exactly when the
\* optimizer update left them unchanged.
FirstStepShadowIsBlend ==
    AfterFirstStep =>
        /\ global_step = 1
        /\ \A k \in Keys :
               DecayDen * ema[k] =
                   DefaultDecay * ConstructedParams[k]
                       + (DecayDen - DefaultDecay) * model[k]
        /\ (ema = model) <=> (model = ConstructedParams)

FirstStepShadowDiffers ==
    /\ AfterFirstStep
    /\ global_step = 1
    /\ ema # model

\* C8: global_step never decreases, grows by one with each optimizer update
\* and by nothing else in the loop, never exceeds max_train_steps; once it
\* equals max_train_steps no batch is pulled and no stage of a further step
\* runs; unless construction fails, the run reaches Terminal.
StepCounterAndTermination ==
    /\ [](global_step <= args.max_train_steps)
    /\ [][global_step' >= global_step]_vars
    /\ [][(InLoop /\ (global_step' # global_step \/ optSteps' # optSteps)) =>
              /\ pc = "Backwarded"
              /\ global_step' = global_step + 1
              /\ optSteps' = optSteps + 1]_vars
    /\ [][(global_step = args.max_train_steps) =>
              (batch' = batch /\ pc' \notin {"Stepped", "Backwarded", "Optimized"})]_vars
    /\ <>(pc \in {"Terminal", "Failed"})

RunReachedTerminal ==
    /\ pc = "Terminal"
    /\ global_step = args.max_train_steps
    /\ optSteps = MaxTrainSteps

\* C9: in the loop the learning rate is the warm-up ramp of global_step:
\* 0 at step 0, linear up to the target at lr_warmup_steps, the target from
\* there on.
LrWarmupThenConstant ==
    (InLoop \/ pc = "Terminal") =>
        IF args.lr_warmup_steps > 0
        THEN lr * args.lr_warmup_steps = BaseLr * Min(global_step, args.lr_warmup_steps)
        ELSE lr = BaseLr

\* C10: resuming from a checkpoint saved at step n restores global_step = n
\* and the saved live parameters, shadow parameters, optimizer state and
\* scheduler state exactly, whatever the pretrained load and the decay-0
\* update of construction did before; from there on the scheduler count and
\* the learning rate are the function of global_step they are in a run
\* that was never interrupted.
ResumeRestoresCheckpoint ==
    /\ (pc = "Idle" /\ optSteps = 0 /\ CkptPath(args)) =>
           LET c == args.resume_from_checkpoint.ckpt
           IN  /\ global_step = c.global_step
               /\ model = c.model
               /\ ema = c.ema
               /\ opt = c.opt
               /\ sched = c.sched
    /\ InLoop =>
           /\ lr = ConstantSchedule(sched,
                      args.lr_warmup_steps * args.gradient_accumulation_steps)
           /\ sched = current_epoch
           /\ (pc = "Idle") => current_epoch * BatchesPerEpoch + batch_idx = global_step

ResumedAfterPretrainedLoad ==
    /\ pc = "Idle"
    /\ optSteps = 0
    /\ CkptPath(args)
    /\ ctorTrace = << "load", "sync" >>
    /\ global_step = 1
    /\ ema # model

\* __init__ called the load and it returned
Loaded == Len(ctorTrace) > 0 /\ ctorTrace[1] = "load"

JustLoaded == pc = "ctor_sync" /\ Loaded

\* line 39 was true: the load was called
LoadCalled ==
    /\ pc # "ctor"
    /\ args.pretrained.given
    /\ args.resume_from_checkpoint.kind # "None"

\* the parameter dict the file holds for loading
LoadedDict == Unwrap(args.pretrained.file)

ShapesFit == \A k \in DOMAIN LoadedDict \cap Keys : LoadedDict[k].shape = ModelShape

\* C11: a partial load (no shape differs on a name in both) does not fail,
\* applies exactly the names present in both the dict and the network,
\* reports every name of the dict that the network lacks and reports every
\* name of the network that the dict lacks.
PartialLoadReportsBothSides ==
    (LoadCalled /\ ShapesFit /\ pc \in {"ctor_sync", "Failed"}) =>
        /\ pc = "ctor_sync"
        /\ \A k \in Keys :
               model[k] = IF k \in DOMAIN LoadedDict THEN LoadedDict[k].val
                          ELSE InitParams[k]
        /\ ignored = DOMAIN LoadedDict \ Keys
        /\ unfilled = Keys \ DOMAIN LoadedDict

\* C12: whatever names the dict holds (a subset of the network's, a
\* superset, disjoint, none), the load fails exactly when a name present in
\* both has a different shape.
LoadFailsOnlyOnShapeMismatch ==
    LoadCalled => ((pc = "Failed") <=> ~ShapesFit)

\* C13: after a load that returned, every parameter whose name the dict
\* lacks holds its value from before the load, every parameter whose name
\* the dict holds has the dict's value, and the network has the names it
\* had (none of the dict's is added).
LoadKeepsUnmatchedParams ==
    JustLoaded =>
        /\ DOMAIN model = Keys
        /\ \A k \in Keys \ DOMAIN LoadedDict : model[k] = InitParams[k]
        /\ \A k \in Keys \cap DOMAIN LoadedDict : model[k] = LoadedDict[k].val

LoadKeptUnmatchedParam ==
    /\ JustLoaded
    /\ "k3" \in DOMAIN LoadedDict
    /\ "k2" \notin DOMAIN LoadedDict
    /\ model["k2"] = InitParams["k2"]
    /\ model["k1"] # InitParams["k1"]

\* C14 as stated: a file without the marker key is the legacy form, and
\* its parameters are loaded into the shadow parameters, not the live ones.
LegacyRecordLoadsIntoShadow ==
    (JustLoaded /\ "ema" \notin DOMAIN args.pretrained.file) =>
        /\ \A k \in Keys \cap DOMAIN LoadedDict : ema[k] = LoadedDict[k].val
        /\ model = InitParams

\* C14, amended: the load tells a train.py checkpoint from a bare
\* parameter dict by the key "ema": with the key it takes the parameters
\* stored under "ema" (not those under "model"), without it the file
\* itself; either way they are loaded into the live parameters and the load
\* leaves the shadow parameters as they were.
MarkerSelectsEmaEntryIntoLive ==
    JustLoaded =>
        LET file == args.pretrained.file
            src  == IF "ema" \in DOMAIN file THEN file["ema"] ELSE file
        IN  /\ \A k \in Keys \cap DOMAIN src : model[k] = src[k].val
            /\ ema = InitParams

EmaEntryLoadedIntoLive ==
    /\ JustLoaded
    /\ "ema" \in DOMAIN args.pretrained.file
    /\ model["k1"] = args.pretrained.file["ema"]["k1"].val
    /\ model["k1"] # args.pretrained.file["model"]["k1"].val
    /\ ema # model

\* C16: in every state the shadow parameters and the live parameters have
\* the same names.
ShadowAndLiveShareKeys == DOMAIN ema = DOMAIN model

SharedKeysAfterLoadAndSteps ==
    /\ pc = "Idle"
    /\ Loaded
    /\ ignored # {}
    /\ Keys \ DOMAIN LoadedDict # {}
    /\ emaUpdates > 1
    /\ DOMAIN ema = Keys

OnlyOptimizerAndEmaWrite ==
    [][InLoop =>
          /\ (model' # model) => (pc = "Backwarded" /\ optSteps' = optSteps + 1)
          /\ (ema' # ema) => (pc = "Optimized" /\ emaUpdates' = emaUpdates + 1)
          /\ (pc \in {"Idle", "Stepped"}) => (model' = model /\ ema' = ema)]_vars

LiveAndShadowWritten ==
    /\ pc = "Stepped"
    /\ FreshRun
    /\ optSteps > 0
    /\ model # ConstructedParams
    /\ ema # ConstructedParams
    /\ ema # model

\* C17: the metrics of a step are emitted after that step's optimizer
\* update and after that step's shadow update, and the gradient norm among
\* them is the norm of the gradients of that step's own loss.
MetricsLoggedAfterEmaUpdate ==
    metrics.logged =>
        /\ metrics.optSteps = metrics.step - restoredStep + 1
        /\ metrics.emaUpdates = metrics.step - restoredStep + 1
        /\ metrics.gradient_norm = GradNorm(TRUE, batch.g)

\* C18: once a step has computed a NaN or Inf loss the run is aborted in
\* that step: no optimizer update uses it, the live and shadow parameters
\* stay finite, global_step keeps its value and no further stage runs.
NonFiniteLossAbortsRun ==
    nan.loss =>
        /\ pc \in {"Stepped", "Failed"}
        /\ global_step = nan.step
        /\ applied.done => applied.finite
        /\ ~nan.params /\ ~nan.shadow

====
